---------------------------- MODULE Spec2Model ----------------------------
(***************************************************************************)
(* Model of XCSoar's software pixel engine (Screen/Memory/                 *)
(* PixelOperations.hpp) instantiated for an 8 bit grayscale pixel format,  *)
(* and of the XCOM760 radio driver (Device/Driver/XCOM760.cpp).            *)
(*                                                                         *)
(* Three specifications share the module:                                  *)
(*   Spec        the engine (WritePixel / FillPixels / CopyPixels) acting  *)
(*               on a frame buffer, one call and its repetitions;          *)
(*   SpecChannel the scalar operations (alpha blend, bit-not) applied to   *)
(*               channel values;                                           *)
(*   SpecRadio   the XCOM760 command operations and the device port.       *)
(***************************************************************************)
EXTENDS Integers, Sequences, FiniteSets, TLC

VARIABLES
  mem,       \* the frame buffer: a sequence of 8 bit pixels, addresses 1..Len(mem)
  orig,      \* the frame buffer before the first call
  snap,      \* the frame buffer as it was when the last call started
  last,      \* the last engine call: kind, operation and arguments
  trace,     \* memory accesses of the last call, in program order
  repeats,   \* how many times the last call has been issued again
  chA, chB,  \* channel operands of the scalar operation
  chAlpha,   \* the alpha the PixelAlphaOperation was constructed with
  chRes,     \* result of the scalar operation
  chStage,   \* which scalar operation has run
  port,      \* lines the device port has received, in order
  sent       \* the XCOM760 calls made so far, in order

engineVars == <<mem, orig, snap, last, trace, repeats>>
channelVars == <<chA, chB, chAlpha, chRes, chStage>>
radioVars == <<port, sent>>
vars == <<mem, orig, snap, last, trace, repeats, chA, chB, chAlpha, chRes, chStage,
          port, sent>>

---------------------------------------------------------------------------
(* Bounds of the model *)

\* length of the enumerated frame buffers
MemLen == 4
\* how often a FillPixels call is issued again with the same arguments
MaxRepeat == 1
\* number of XCOM760 commands in a run
MaxCommands == 3

---------------------------------------------------------------------------
(* The pixel format: 8 bit grayscale, channel_type = integer_type = uint8_t *)

\* bits of channel_type / integer_type
ChannelBits == 8
\* the shift of the blend formulas (">> 8")
AlphaShift == 8

ChannelRange == 0 .. (2^ChannelBits - 1)

\* conversion of an int to uint8_t (return / assignment narrowing)
Narrow(x) == x % (2^ChannelBits)

\* x >> k on a signed int: arithmetic shift, rounds towards minus infinity
ShiftRight(x, k) == x \div (2^k)

RECURSIVE BitwiseRec(_, _, _, _)
\* bit by bit combination of two uint8_t values; f is the truth table
BitwiseRec(a, b, k, f) ==
  IF k = 0 THEN 0
  ELSE f[a % 2][b % 2] + 2 * BitwiseRec(a \div 2, b \div 2, k - 1, f)

\* std::bit_or<integer_type>
bit_or(a, b) ==
  BitwiseRec(a, b, ChannelBits, 0 :> (0 :> 0 @@ 1 :> 1) @@ 1 :> (0 :> 1 @@ 1 :> 1))

\* std::bit_and<integer_type>
bit_and(a, b) ==
  BitwiseRec(a, b, ChannelBits, 0 :> (0 :> 0 @@ 1 :> 0) @@ 1 :> (0 :> 0 @@ 1 :> 1))

---------------------------------------------------------------------------
(* The operation catalog *)

\* a logical not in place of the bitwise one: !x
PixelBitNot_Logical(x) == IF x = 0 THEN 1 ELSE 0

\* PixelBitNot::operator(): ~x is computed on the promoted int (-x - 1) and
\* narrowed to integer_type by the return
PixelBitNot(x) == Narrow(-x - 1)

\* the complement applied to the whole expression: ~(a | b)
PixelBitNotOr_Misplaced(a, b) == Narrow(-bit_or(a, b) - 1)

\* PixelBitNotOr::operator(): a | ~b, narrowed by the return; the low bits of
\* a | ~b are those of a | (uint8_t)~b
PixelBitNotOr(a, b) == bit_or(a, Narrow(-b - 1))

\* the difference b - a taken in T (uint8_t) instead of int
PixelAlphaOperation_Narrow(alpha, a, b) ==
  Narrow(a + ShiftRight(Narrow(b - a) * alpha, AlphaShift))

\* the product divided by 255 (rounding down) instead of shifted by 8
PixelAlphaOperation_Div255(alpha, a, b) ==
  Narrow(a + (((b - a) * alpha) \div 255))

\* PixelAlphaOperation::operator(): b - a and the product are int, the shift
\* is arithmetic, the sum is narrowed to T by the return
PixelAlphaOperation(alpha, a, b) ==
  Narrow(a + ShiftRight((b - a) * alpha, AlphaShift))

\* the lambda of PixelColoredAlpha::operator(), narrowed to channel_type
PixelColoredAlpha(color, a, alpha) ==
  Narrow(a + ShiftRight((color - a) * alpha, AlphaShift))

\* the lambda of PixelOpaqueAlpha::operator(), narrowed to channel_type
PixelOpaqueAlpha(a, b, alpha) ==
  Narrow(a + ShiftRight((b - a) * alpha, AlphaShift))

\* SPT::IsBlack for a grayscale pixel
IsBlack(x) == x = 0

\* the two colors exchanged
PixelOpaqueText_Swapped(background_color, text_color, x) ==
  IF IsBlack(x) THEN text_color ELSE background_color

\* PixelOpaqueText::operator()
PixelOpaqueText(background_color, text_color, x) ==
  IF IsBlack(x) THEN background_color ELSE text_color

\* the comparison inverted: c == key
ColorKey_Equal(key, c) == c = key

\* ColorKey::operator()
ColorKey(key, c) == c # key

---------------------------------------------------------------------------
(* The format descriptor (PixelTraits) for 8 bit grayscale *)

\* PixelTraits::ReadPixel
ReadPixel(m, p) == m[p]

\* PixelTraits::WritePixel
WritePixel(m, p, c) == [m EXCEPT ![p] = c]

\* a memory access of the engine: "rs" reads a source pixel, "rd" reads a
\* destination pixel, "w" writes a destination pixel; v is the value moved
Access(tag, p, v) == [tag |-> tag, p |-> p, v |-> v]

\* the machine state a call works on: the buffer and the accesses so far
Machine(m, t) == [mem |-> m, trace |-> t]

---------------------------------------------------------------------------
(* Operations: the classes the engine is instantiated with *)

UnaryKinds == {"BitNot", "OpaqueText", "OpaqueAlpha"}
BinaryKinds == {"BitOr", "BitAnd", "BitNotOr", "Alpha", "ColoredAlpha"}
ConditionalKinds == {"Transparent"}
InvertKinds == {"TransparentInvert"}

Operation(kind, x, y) == [kind |-> kind, x |-> x, y |-> y]

\* the function object of a UnaryWritePixel: PixelIntegerAdapter<PixelBitNot>,
\* PixelOpaqueText or PixelOpaqueAlpha, applied to the source color
UnaryOperation(op, c) ==
  CASE op.kind = "BitNot" -> PixelBitNot(c)
    [] op.kind = "OpaqueText" -> PixelOpaqueText(op.x, op.y, c)
    [] op.kind = "OpaqueAlpha" -> PixelOpaqueAlpha(op.x, op.y, c)

\* the function object of a BinaryWritePixel, applied to the old destination
\* color a and the source color c
BinaryOperation(op, a, c) ==
  CASE op.kind = "BitOr" -> bit_or(a, c)
    [] op.kind = "BitAnd" -> bit_and(a, c)
    [] op.kind = "BitNotOr" -> PixelBitNotOr(a, c)
    [] op.kind = "Alpha" -> PixelAlphaOperation(op.x, a, c)
    [] op.kind = "ColoredAlpha" -> PixelColoredAlpha(op.x, a, c)

---------------------------------------------------------------------------
(* Write strategies *)

\* UnaryWritePixel::WritePixel
UnaryWritePixel(op, st, p, c) ==
  LET v == UnaryOperation(op, c)
  IN Machine(WritePixel(st.mem, p, v), Append(st.trace, Access("w", p, v)))

\* BinaryWritePixel::WritePixel
BinaryWritePixel(op, st, p, c) ==
  LET a == ReadPixel(st.mem, p)
      v == BinaryOperation(op, a, c)
  IN Machine(WritePixel(st.mem, p, v),
             st.trace \o <<Access("rd", p, a), Access("w", p, v)>>)

\* ConditionalWritePixel::WritePixel with Check = ColorKey
ConditionalWritePixel(op, st, p, c) ==
  IF ColorKey(op.x, c)
  THEN Machine(WritePixel(st.mem, p, c), Append(st.trace, Access("w", p, c)))
  ELSE st

\* the source color stored as it is, without the PixelBitNot adapter
TransparentInvertWritePixel_Plain(op, st, p, c) ==
  IF c # op.x
  THEN Machine(WritePixel(st.mem, p, c), Append(st.trace, Access("w", p, c)))
  ELSE st

\* TransparentInvertPixelOperations::WritePixel
TransparentInvertWritePixel(op, st, p, c) ==
  IF c # op.x
  THEN Machine(WritePixel(st.mem, p, PixelBitNot(c)),
               Append(st.trace, Access("w", p, PixelBitNot(c))))
  ELSE st

---------------------------------------------------------------------------
(* The engine: PerPixelOperations *)

\* PerPixelOperations::WritePixel: delegates to the write strategy
EngineWritePixel(op, st, p, c) ==
  CASE op.kind \in UnaryKinds -> UnaryWritePixel(op, st, p, c)
    [] op.kind \in BinaryKinds -> BinaryWritePixel(op, st, p, c)
    [] op.kind \in ConditionalKinds -> ConditionalWritePixel(op, st, p, c)
    [] op.kind \in InvertKinds -> TransparentInvertWritePixel(op, st, p, c)

RECURSIVE ForHorizontal(_, _, _, _, _, _)
\* PixelTraits::ForHorizontal: calls the function once per pixel address
\* p, p+1, ..., p+n-1; the function is FillPixels' lambda
ForHorizontal(op, st, p, n, c, i) ==
  IF i >= n THEN st
  ELSE ForHorizontal(op, EngineWritePixel(op, st, p + i, c), p, n, c, i + 1)

\* PerPixelOperations::FillPixels
FillPixels(op, st, p, n, c) == ForHorizontal(op, st, p, n, c, 0)

RECURSIVE CopyLoop(_, _, _, _, _, _)
\* the for loop of CopyPixels from index i on: read the source pixel, then
\* WritePixel to the destination
CopyLoop(op, st, p, src, n, i) ==
  IF i >= n THEN st
  ELSE LET c == ReadPixel(st.mem, src + i)
           read == Machine(st.mem, Append(st.trace, Access("rs", src + i, c)))
       IN CopyLoop(op, EngineWritePixel(op, read, p + i, c), p, src, n, i + 1)

\* the loop started at i = 1
CopyPixels_FromOne(op, st, p, src, n) == CopyLoop(op, st, p, src, n, 1)

RECURSIVE CopyLoopDown(_, _, _, _, _, _)
\* the loop run from the last position down to the first
CopyLoopDown(op, st, p, src, n, i) ==
  IF i < 0 THEN st
  ELSE LET c == ReadPixel(st.mem, src + i)
           read == Machine(st.mem, Append(st.trace, Access("rs", src + i, c)))
       IN CopyLoopDown(op, EngineWritePixel(op, read, p + i, c), p, src, n, i - 1)

CopyPixels_Backward(op, st, p, src, n) == CopyLoopDown(op, st, p, src, n, n - 1)

\* PerPixelOperations::CopyPixels
CopyPixels(op, st, p, src, n) == CopyLoop(op, st, p, src, n, 0)

---------------------------------------------------------------------------
(* Spec: calls of the engine on a frame buffer *)

\* pixel values of the enumerated frame buffers
PixelSamples == {0, 10, 200}
\* colors passed to FillPixels and WritePixel
ColorSamples == {0, 10, 200, 255}
\* color keys of Transparent and TransparentInvert
KeySamples == {10, 200}
\* alpha values of AlphaPixelOperations
EngineAlphas == {0, 128, 255}

\* the instantiations of the engine that are called
Operations ==
  {Operation(k, 0, 0) : k \in {"BitNot", "BitOr", "BitAnd", "BitNotOr"}}
    \cup {Operation("Alpha", a, 0) : a \in EngineAlphas}
    \cup {Operation("ColoredAlpha", c, 0) : c \in {0, 255}}
    \cup {Operation("OpaqueText", 5, 250), Operation("OpaqueText", 200, 0)}
    \cup {Operation("OpaqueAlpha", 5, 250), Operation("OpaqueAlpha", 200, 10)}
    \cup {Operation(k, key, 0) : k \in {"Transparent", "TransparentInvert"},
                                 key \in KeySamples}

\* a source row followed by a destination row (the color key example)
ScenarioBuffer == <<10, 200, 10, 250, 5, 5, 5, 5>>

RECURSIVE Rows(_)
\* all rows of n pixels drawn from PixelSamples
Rows(n) ==
  IF n = 0 THEN {<<>>}
  ELSE {Append(r, x) : r \in Rows(n - 1), x \in PixelSamples}

Buffers == Rows(MemLen) \cup {ScenarioBuffer}

Call(kind, op, p, src, n, c) ==
  [call |-> kind, op |-> op, p |-> p, src |-> src, n |-> n, c |-> c]

NoCall == Call("none", Operation("none", 0, 0), 0, 0, 0, 0)

Init ==
  /\ mem \in Buffers
  /\ orig = mem
  /\ snap = mem
  /\ last = NoCall
  /\ trace = <<>>
  /\ repeats = 0
  /\ chA = 0 /\ chB = 0 /\ chAlpha = 0 /\ chRes = 0 /\ chStage = "init"
  /\ port = <<>> /\ sent = <<>>

\* WritePixel(p, c) on one pixel of the buffer
DoWritePixel ==
  /\ last.call = "none"
  /\ \E op \in Operations, p \in 1 .. Len(mem), c \in ColorSamples :
       LET r == EngineWritePixel(op, Machine(mem, <<>>), p, c)
       IN /\ mem' = r.mem
          /\ trace' = r.trace
          /\ last' = Call("write", op, p, 0, 1, c)
  /\ snap' = mem
  /\ UNCHANGED <<orig, repeats, channelVars, radioVars>>

\* FillPixels(p, n, c) on a span inside the buffer
DoFillPixels ==
  /\ last.call = "none"
  /\ \E op \in Operations, p \in 1 .. Len(mem), n \in 0 .. Len(mem),
        c \in ColorSamples :
       /\ p + n - 1 <= Len(mem)
       /\ LET r == FillPixels(op, Machine(mem, <<>>), p, n, c)
          IN /\ mem' = r.mem
             /\ trace' = r.trace
             /\ last' = Call("fill", op, p, 0, n, c)
  /\ snap' = mem
  /\ UNCHANGED <<orig, repeats, channelVars, radioVars>>

\* the same FillPixels call issued again, right after the previous one
DoFillPixelsAgain ==
  /\ last.call = "fill"
  /\ repeats < MaxRepeat
  /\ LET r == FillPixels(last.op, Machine(mem, <<>>), last.p, last.n, last.c)
     IN /\ mem' = r.mem
        /\ trace' = r.trace
  /\ snap' = mem
  /\ repeats' = repeats + 1
  /\ UNCHANGED <<orig, last, channelVars, radioVars>>

\* CopyPixels(p, src, n) with both spans inside the buffer
DoCopyPixels ==
  /\ last.call = "none"
  /\ \E op \in Operations, p \in 1 .. Len(mem), src \in 1 .. Len(mem),
        n \in 0 .. Len(mem) :
       /\ p + n - 1 <= Len(mem)
       /\ src + n - 1 <= Len(mem)
       /\ LET r == CopyPixels(op, Machine(mem, <<>>), p, src, n)
          IN /\ mem' = r.mem
             /\ trace' = r.trace
             /\ last' = Call("copy", op, p, src, n, 0)
  /\ snap' = mem
  /\ UNCHANGED <<orig, repeats, channelVars, radioVars>>

Next == DoWritePixel \/ DoFillPixels \/ DoFillPixelsAgain \/ DoCopyPixels

Spec == Init /\ [][Next]_vars

---------------------------------------------------------------------------
(* SpecChannel: the scalar operations on channel values *)

\* alpha values and channel values at the ends and in the middle of the range
AlphaSamples == {0, 1, 64, 127, 128, 129, 254, 255}
ChannelSamples == {0, 1, 100, 127, 128, 200, 254, 255}

\* the inputs <<a, b, alpha>> of the alpha blend: every pair of channel
\* values with the sampled alphas, and every alpha with every destination
\* channel and the sampled source channels (every difference b - a occurs)
AlphaInputs ==
  (ChannelRange \X ChannelRange \X AlphaSamples)
    \cup (ChannelRange \X ChannelSamples \X ChannelRange)

InitChannel ==
  /\ chA = 0
  /\ chB = 0
  /\ chAlpha = 0
  /\ chRes = 0
  /\ chStage = "init"
  /\ mem = <<>> /\ orig = <<>> /\ snap = <<>>
  /\ last = NoCall /\ trace = <<>> /\ repeats = 0
  /\ port = <<>> /\ sent = <<>>

\* PixelAlphaOperation(alpha)(a, b) for a destination channel a and a source
\* channel b
ApplyAlpha ==
  /\ chStage = "init"
  /\ \E in \in AlphaInputs :
       /\ chA' = in[1]
       /\ chB' = in[2]
       /\ chAlpha' = in[3]
       /\ chRes' = PixelAlphaOperation(in[3], in[1], in[2])
  /\ chStage' = "alpha"
  /\ UNCHANGED <<engineVars, radioVars>>

\* PixelBitNot()(x)
ApplyBitNot ==
  /\ chStage = "init"
  /\ \E x \in ChannelRange :
       /\ chA' = x
       /\ chRes' = PixelBitNot(x)
  /\ chStage' = "not"
  /\ UNCHANGED <<chB, chAlpha>>
  /\ UNCHANGED <<engineVars, radioVars>>

\* PixelBitNot() applied to the result of PixelBitNot()(x)
ApplyBitNotAgain ==
  /\ chStage = "not"
  /\ chRes' = PixelBitNot(chRes)
  /\ chStage' = "notnot"
  /\ UNCHANGED <<chA, chB, chAlpha>>
  /\ UNCHANGED <<engineVars, radioVars>>

NextChannel == ApplyAlpha \/ ApplyBitNot \/ ApplyBitNotAgain

SpecChannel == InitChannel /\ [][NextChannel]_vars

---------------------------------------------------------------------------
(* SpecRadio: the XCOM760 driver and its port *)

\* volumes passed to PutVolume
VolumeSamples == {-1, 0, 7, 100}
\* frequencies in kHz (RadioFrequency::GetKiloHertz)
FrequencySamples == {118000, 121005, 123450, 136975}

DigitChars == <<"0", "1", "2", "3", "4", "5", "6", "7", "8", "9">>

RECURSIVE Digits(_)
\* the decimal digits of a number >= 0, most significant first
Digits(v) ==
  IF v < 10 THEN <<DigitChars[v + 1]>>
  ELSE Append(Digits(v \div 10), DigitChars[(v % 10) + 1])

\* sprintf "%d"
FormatD(v) == IF v < 0 THEN <<"-">> \o Digits(-v) ELSE Digits(v)

\* sprintf "%u"
FormatU(v) == Digits(v)

\* sprintf "%03u": at least three digits, padded with zeros on the left
Format03U(v) ==
  LET d == Digits(v)
  IN IF Len(d) >= 3 THEN d
     ELSE [i \in 1 .. (3 - Len(d)) |-> "0"] \o d

CRLF == <<"\r", "\n">>

\* sprintf(szTmp, "$RVOL=%d\r\n", Volume)
VolumeLine(volume) ==
  <<"$", "R", "V", "O", "L", "=">> \o FormatD(volume) \o CRLF

\* sprintf(szTmp, "$TXAF=%u.%03u\r\n", kHz / 1000, kHz % 1000)
ActiveFrequencyLine(khz) ==
  <<"$", "T", "X", "A", "F", "=">> \o FormatU(khz \div 1000) \o <<".">>
    \o Format03U(khz % 1000) \o CRLF

\* sprintf(szTmp, "$TXSF=%u.%03u\r\n", kHz / 1000, kHz % 1000)
StandbyFrequencyLine(khz) ==
  <<"$", "T", "X", "S", "F", "=">> \o FormatU(khz \div 1000) \o <<".">>
    \o Format03U(khz % 1000) \o CRLF

\* Port::Write: the port receives the string
PortWrite(received, line) == Append(received, line)

\* the record of a finished call: the operation, its argument, the string
\* it formatted into szTmp and the value it returned
Command(cmd, arg, line, ret) ==
  [cmd |-> cmd, arg |-> arg, szTmp |-> line, ret |-> ret]

InitRadio ==
  /\ port = <<>>
  /\ sent = <<>>
  /\ mem = <<>> /\ orig = <<>> /\ snap = <<>>
  /\ last = NoCall /\ trace = <<>> /\ repeats = 0
  /\ chA = 0 /\ chB = 0 /\ chAlpha = 0 /\ chRes = 0 /\ chStage = "init"

\* XCOM760Device::PutVolume
PutVolume ==
  /\ Len(sent) < MaxCommands
  /\ \E volume \in VolumeSamples :
       LET szTmp == VolumeLine(volume)
       IN /\ port' = PortWrite(port, szTmp)
          /\ sent' = Append(sent, Command("PutVolume", volume, szTmp, TRUE))
  /\ UNCHANGED <<engineVars, channelVars>>

\* XCOM760Device::PutActiveFrequency
PutActiveFrequency ==
  /\ Len(sent) < MaxCommands
  /\ \E khz \in FrequencySamples :
       LET szTmp == ActiveFrequencyLine(khz)
       IN /\ port' = PortWrite(port, szTmp)
          /\ sent' = Append(sent,
                            Command("PutActiveFrequency", khz, szTmp, TRUE))
  /\ UNCHANGED <<engineVars, channelVars>>

\* XCOM760Device::PutStandbyFrequency: formats the command and returns true;
\* the function holds no port->Write
PutStandbyFrequency ==
  /\ Len(sent) < MaxCommands
  /\ \E khz \in FrequencySamples :
       LET szTmp == StandbyFrequencyLine(khz)
       IN sent' = Append(sent,
                         Command("PutStandbyFrequency", khz, szTmp, TRUE))
  /\ UNCHANGED port
  /\ UNCHANGED <<engineVars, channelVars>>

NextRadio == PutVolume \/ PutActiveFrequency \/ PutStandbyFrequency

SpecRadio == InitRadio /\ [][NextRadio]_vars

---------------------------------------------------------------------------
(* Properties of the engine, checked under Spec *)

\* the spans [p, p+n) and [src, src+n) share no address
SpansDisjoint(p, src, n) == p + n <= src \/ src + n <= p

\* the accesses of the last call that carry the given tag, in program order
Accesses(tag) == SelectSeq(trace, LAMBDA e : e.tag = tag)

\* whether the last call is a CopyPixels through an operation of these kinds
Copied(kinds) == last.call = "copy" /\ last.op.kind \in kinds

\* C1: after CopyPixels through Conditional-Write with Color-Key(key), from a
\* source row to a destination row that does not overlap it, every
\* destination position whose source pixel equals the key holds its pre-call
\* value and every other position of the span holds the source pixel.
C1_ColorKeyCopy ==
  (Copied({"Transparent"}) /\ SpansDisjoint(last.p, last.src, last.n)) =>
    /\ \A i \in 0 .. (last.n - 1) :
         mem[last.p + i] = IF snap[last.src + i] = last.op.x
                           THEN snap[last.p + i]
                           ELSE snap[last.src + i]
    /\ \A a \in 1 .. Len(mem) :
         (a < last.p \/ a >= last.p + last.n) => mem[a] = snap[a]

\* the color key example: source [10,200,10,250], key 10, destination
\* [5,5,5,5] has become [5,200,5,250]
C1_Witness ==
  /\ Copied({"Transparent"})
  /\ last.op.x = 10 /\ last.p = 5 /\ last.src = 1 /\ last.n = 4
  /\ snap = <<10, 200, 10, 250, 5, 5, 5, 5>>
  /\ mem = <<10, 200, 10, 250, 5, 200, 5, 250>>

\* C2 as stated: FillPixels issued twice in a row with the same arguments
\* leaves the buffer as the first call left it, for every operation.
C2_FillIdempotentEveryOperation ==
  (last.call = "fill" /\ repeats >= 1) => mem = snap

\* C2 amended: FillPixels issued again with the same arguments leaves the
\* buffer as the previous call left it, for every operation other than the
\* Blend-Write alpha blends (Alpha Blend, Colored-Alpha).
C2_FillIdempotentNonBlending ==
  (/\ last.call = "fill"
   /\ repeats >= 1
   /\ last.op.kind \notin {"Alpha", "ColoredAlpha"}) => mem = snap

\* a Blend-Write fill (Bit-Not-Or) that changed two pixels, issued again
C2_Witness ==
  /\ last.call = "fill" /\ repeats = 1
  /\ last.op.kind = "BitNotOr" /\ last.n = 2
  /\ \A i \in 0 .. 1 : mem[last.p + i] # orig[last.p + i]
  /\ mem = snap

\* the source reads of the last CopyPixels are src+0 .. src+n-1, each once
CopyReadsSpan ==
  /\ Len(Accesses("rs")) = last.n
  /\ \A i \in 1 .. last.n : Accesses("rs")[i].p = last.src + i - 1

\* the writes of the last CopyPixels are dest+0 .. dest+n-1, each once
CopyWritesSpan ==
  /\ Len(Accesses("w")) = last.n
  /\ \A i \in 1 .. last.n : Accesses("w")[i].p = last.p + i - 1

\* C3 as stated: CopyPixels reads exactly n source pixels and writes exactly
\* n destination pixels, with every write strategy.
C3_CopyReadsAndWritesN ==
  last.call = "copy" => (CopyReadsSpan /\ CopyWritesSpan)

\* C3 amended: CopyPixels reads exactly the n source pixels src+0 .. src+n-1,
\* each once; with Direct-Write and Blend-Write it writes exactly the n
\* destination pixels dest+0 .. dest+n-1, each once; with Conditional-Write
\* it writes, once each, exactly the positions dest+i whose source pixel as
\* read differs from the key, so at most n; with n = 0 there is no access.
C3_CopyReadsNWritesSelected ==
  last.call = "copy" =>
    /\ CopyReadsSpan
    /\ last.op.kind \in (UnaryKinds \cup BinaryKinds) => CopyWritesSpan
    /\ last.op.kind \in (ConditionalKinds \cup InvertKinds) =>
         LET passed == SelectSeq(Accesses("rs"), LAMBDA e : e.v # last.op.x)
         IN /\ Len(Accesses("w")) = Len(passed)
            /\ Len(Accesses("w")) <= last.n
            /\ \A j \in 1 .. Len(passed) :
                 Accesses("w")[j].p = last.p + (passed[j].p - last.src)
    /\ last.n = 0 => trace = <<>>

\* a Conditional-Write copy of four pixels that wrote only two of them
C3_Witness ==
  /\ Copied({"Transparent"})
  /\ last.n = 4
  /\ Len(Accesses("rs")) = 4
  /\ Len(Accesses("w")) = 2

\* C6: TransparentInvertPixelOperations(key).WritePixel(dest, c) stores the
\* bitwise complement of c (255 - c on 8 bits) at dest when c differs from
\* the key, whatever dest held, and performs no access when c is the key.
C6_TransparentInvertWrite ==
  (last.call = "write" /\ last.op.kind = "TransparentInvert") =>
    IF last.c # last.op.x
    THEN /\ mem = [snap EXCEPT ![last.p] = 255 - last.c]
         /\ trace = <<Access("w", last.p, 255 - last.c)>>
    ELSE /\ mem = snap
         /\ trace = <<>>

\* color 10 written through key 200 over a pixel holding 200: it holds 245
C6_Witness ==
  /\ last.call = "write" /\ last.op.kind = "TransparentInvert"
  /\ last.op.x = 200 /\ last.c = 10
  /\ snap[last.p] = 200 /\ mem[last.p] = 245

\* C8: a CopyPixels through OpaqueTextPixelOperations(background, textColor)
\* writes background for every black source pixel and textColor for every
\* other one, so the span holds the two colors and nothing else.
C8_OpaqueTextTwoValued ==
  Copied({"OpaqueText"}) =>
    /\ \A i \in 0 .. (last.n - 1) : mem[last.p + i] \in {last.op.x, last.op.y}
    /\ \A k \in 1 .. Len(trace) :
         trace[k].tag = "w" =>
           /\ k > 1
           /\ trace[k - 1].tag = "rs"
           /\ trace[k].v = IF trace[k - 1].v = 0 THEN last.op.x ELSE last.op.y

\* a copy that produced both colors over pixels that held neither
C8_Witness ==
  /\ Copied({"OpaqueText"})
  /\ last.op.x = 5 /\ last.op.y = 250
  /\ \E i, j \in 0 .. (last.n - 1) :
       /\ snap[last.src + i] = 0 /\ mem[last.p + i] = 5
       /\ snap[last.src + j] # 0 /\ mem[last.p + j] = 250
       /\ snap[last.p + i] \notin {5, 250}
       /\ snap[last.p + j] \notin {5, 250}

\* the position (0 .. n-1) of the span that an access of CopyPixels belongs to
CopyIndex(e) == IF e.tag = "rs" THEN e.p - last.src ELSE e.p - last.p

\* rank of an access inside the work on one position
TagRank(e) == CASE e.tag = "rs" -> 0 [] e.tag = "rd" -> 1 [] e.tag = "w" -> 2

\* what one WritePixel makes of a destination pixel old and a source color c
PixelResult(op, old, c) == EngineWritePixel(op, Machine(<<old>>, <<>>), 1, c).mem[1]

\* C9: CopyPixels works on positions 0, 1, ..., n-1 in increasing order and
\* reads source position i (then, for Blend-Write, destination position i)
\* immediately before it writes destination position i; when the
\* destination span starts at or before the source span, or the spans are
\* disjoint, the result is that of applying the operation to the buffer as
\* it was before the call.
C9_LeftToRightCopy ==
  last.call = "copy" =>
    /\ CopyReadsSpan
    /\ \A k \in 1 .. Len(trace) :
         /\ CopyIndex(trace[k]) \in 0 .. (last.n - 1)
         /\ k > 1 =>
              \/ CopyIndex(trace[k - 1]) < CopyIndex(trace[k])
              \/ /\ CopyIndex(trace[k - 1]) = CopyIndex(trace[k])
                 /\ TagRank(trace[k - 1]) < TagRank(trace[k])
         /\ trace[k].tag = "rd" =>
              /\ last.op.kind \in BinaryKinds
              /\ k > 1 /\ trace[k - 1].tag = "rs"
              /\ CopyIndex(trace[k - 1]) = CopyIndex(trace[k])
         /\ trace[k].tag = "w" =>
              /\ k > 1
              /\ trace[k - 1].tag =
                   (IF last.op.kind \in BinaryKinds THEN "rd" ELSE "rs")
              /\ CopyIndex(trace[k - 1]) = CopyIndex(trace[k])
    /\ (last.p <= last.src \/ SpansDisjoint(last.p, last.src, last.n)) =>
         \A a \in 1 .. Len(mem) :
           mem[a] = IF a >= last.p /\ a < last.p + last.n
                    THEN PixelResult(last.op, snap[a], snap[last.src + (a - last.p)])
                    ELSE snap[a]

\* an overlapping Blend-Write copy whose destination starts one pixel before
\* its source and that changed both pixels of the span
C9_Witness ==
  /\ Copied({"BitOr"})
  /\ last.p + 1 = last.src /\ last.n = 2
  /\ mem[last.p] # snap[last.p]
  /\ mem[last.p + 1] # snap[last.p + 1]
  /\ Len(trace) = 6

\* the other half of C9: a destination span that starts after an overlapping
\* source span can end up different from the result on the pre-call buffer
C9_BackwardOverlapDiffers ==
  /\ last.call = "copy"
  /\ last.src < last.p /\ last.p < last.src + last.n
  /\ \E a \in last.p .. (last.p + last.n - 1) :
       mem[a] # PixelResult(last.op, snap[a], snap[last.src + (a - last.p)])

---------------------------------------------------------------------------
(* Properties of the scalar operations, checked under SpecChannel *)

Min(x, y) == IF x <= y THEN x ELSE y
Max(x, y) == IF x <= y THEN y ELSE x

\* C4: for channel values a, b and alpha in 0..255 the alpha blend is
\* a + floor((b - a) * alpha / 256) computed without wrapping, lies between
\* min(a, b) and max(a, b), and so is a channel value.
C4_AlphaBlendInRange ==
  chStage = "alpha" =>
    /\ chRes = chA + (((chB - chA) * chAlpha) \div 256)
    /\ Min(chA, chB) <= chRes
    /\ chRes <= Max(chA, chB)
    /\ chRes \in 0 .. 255

\* blending from 255 all the way down: a negative product, shifted with
\* rounding towards minus infinity
C4_Witness ==
  chStage = "alpha" /\ chA = 255 /\ chB = 0 /\ chAlpha = 255 /\ chRes = 0

\* C5: alpha 0 gives a; alpha 255 gives a + floor((b - a) * 255 / 256),
\* which is b - 1 and not b when b > a; a = 0, b = 100, alpha = 128 gives 50.
C5_AlphaBlendEndpoints ==
  chStage = "alpha" =>
    /\ chAlpha = 0 => chRes = chA
    /\ chAlpha = 255 =>
         /\ chRes = chA + (((chB - chA) * 255) \div 256)
         /\ chB > chA => chRes = chB - 1
    /\ (chA = 0 /\ chB = 100 /\ chAlpha = 128) => chRes = 50

\* the single channel blend example
C5_Witness ==
  chStage = "alpha" /\ chA = 0 /\ chB = 100 /\ chAlpha = 128 /\ chRes = 50

\* C7: PixelBitNot is an involution on integer_type: the complement of a
\* packed integer is again a packed integer, and the complement of that is
\* the integer it started from.
C7_BitNotInvolution ==
  /\ chStage = "not" => (chRes \in ChannelRange /\ chRes # chA)
  /\ chStage = "notnot" => chRes = chA

\* the complement taken twice of a nonzero pixel
C7_Witness == chStage = "notnot" /\ chA = 200 /\ chRes = 200

---------------------------------------------------------------------------
(* Properties of the XCOM760 driver, checked under SpecRadio *)

\* the line a command puts on the wire
CommandLine(c) ==
  CASE c.cmd = "PutVolume" -> VolumeLine(c.arg)
    [] c.cmd = "PutActiveFrequency" -> ActiveFrequencyLine(c.arg)
    [] c.cmd = "PutStandbyFrequency" -> StandbyFrequencyLine(c.arg)

\* C10: every command operation has written its formatted line to the port
\* before it returned true: the port holds one line per call, in call order.
C10_PortReceivesEveryCommand ==
  /\ Len(port) = Len(sent)
  /\ \A i \in 1 .. Len(sent) :
       /\ sent[i].ret = TRUE
       /\ i <= Len(port) => port[i] = CommandLine(sent[i])

=============================================================================
